---- MODULE Spec2Model ----
(***************************************************************************)
(* Model of bin/user/idokep.py: the IDOKEP service (the bridge between the *)
(* engine's NEW_ARCHIVE_RECORD events and the upload queue) and the        *)
(* IDOKEPThread upload worker (process_record, check_response, get_url,    *)
(* _format).                                                               *)
(*                                                                         *)
(* Two specifications:                                                     *)
(*   Spec     the service constructor, the producer and the worker loop;   *)
(*   SpecUrl  the request formatter get_url/_format as a pure function     *)
(*            applied to records drawn from bounded sets.                  *)
(*                                                                         *)
(* Python strings that are built, quoted or split are sequences of tokens: *)
(* every character that matters to the URL syntax or to a number's layout  *)
(* ("&", "=", "?", "+", "%", ".", "-", the digits) is a token of its own,  *)
(* any other run of characters is one opaque token.                        *)
(***************************************************************************)
EXTENDS Integers, Sequences, FiniteSets, TLC

VARIABLES
    config_dict,     \* the configuration handed to IDOKEP.__init__
    ctor,            \* position of the engine's thread inside IDOKEP.__init__
    site_dict,       \* the local site_dict of IDOKEP.__init__
    archive_queue,   \* self.archive_queue: NoQueue, or the queue's content
    archive_thread,  \* self.archive_thread: NoThread, or the IDOKEPThread's fields
    alive,           \* "unstarted", "running" or "terminated": the worker thread
    bound,           \* TRUE when new_archive_record is bound to NEW_ARCHIVE_RECORD
    log,             \* the syslog / log lines written so far, in order
    produced,        \* number of archive records the engine has produced
    wpc,             \* worker position: "get" (blocked in queue.get) or "post"
    cur,             \* the record the worker holds (0: none)
    count,           \* _count of post_with_retries
    attempts,        \* per record: number of post_request calls made
    sleeps,          \* per record: number of time.sleep(retry_wait) calls made
    bodies,          \* per record: the kinds of answers the server gave
    requests,        \* records for which a urllib Request was built
    handed,          \* records handed to process_record
    finished,        \* per record: how its processing ended ("" while pending)
    in_record,       \* SpecUrl: the record handed to get_url
    fmt_self,        \* SpecUrl: username, password, station_type, server_url
    tz,              \* SpecUrl: the host's local zone, seconds east of Greenwich
    url,             \* SpecUrl: the value get_url returned
    fpc              \* SpecUrl: "input" before get_url ran, "built" after

svcVars == <<config_dict, ctor, site_dict, archive_queue, archive_thread, alive,
             bound, log, produced, wpc, cur, count, attempts, sleeps, bodies,
             requests, handed, finished>>
urlVars == <<in_record, fmt_self, tz, url, fpc>>
vars == <<config_dict, ctor, site_dict, archive_queue, archive_thread, alive,
          bound, log, produced, wpc, cur, count, attempts, sleeps, bodies,
          requests, handed, finished, in_record, fmt_self, tz, url, fpc>>

-----------------------------------------------------------------------------
(* Bounds of the model *)

\* number of archive records the engine produces
MaxRecords == 3
\* number of lines of a response body
MaxBodyLines == 2
\* number of optional fields a record lacks (absent or None)
MaxMissing == 2

Records == 1..MaxRecords

\* self.archive_queue and self.archive_thread before they are assigned
\* (0 is no record, so <<0>> is no content of a queue)
NoQueue == << 0 >>
NoThread == [ protocol_name |-> "" ]

-----------------------------------------------------------------------------
(* Configuration *)

\* the option values a weewx.conf may hold for [StdRESTful] [[IDOKEP]]
OptionValues ==
    [ username   |-> {"u"},
      password   |-> {"p"},
      skip_upload |-> {"True", "false", "maybe"},
      max_tries  |-> {"1", "2"},
      log_failure |-> {"false"} ]

Options == DOMAIN OptionValues

\* all option dictionaries over a set of keys
DictsOver(keys) == { d \in [keys -> UNION { OptionValues[k] : k \in keys }] :
                       \A k \in keys : d[k] \in OptionValues[k] }

\* the configurations the engine may hand to the service: the [[IDOKEP]]
\* section may be missing; if present, any subset of the options is set.
\* leaves is what accumulateLeaves(site_config, max_level=1) gives: the
\* options of the section together with those set one level above it
ConfigDicts ==
    { [section |-> FALSE, leaves |-> << >>] } \cup
    { [section |-> TRUE, leaves |-> d] :
        d \in UNION { DictsOver(keys) : keys \in SUBSET Options } }

\* dict.setdefault
setdefault(d, k, v) == IF k \in DOMAIN d THEN d ELSE d @@ (k :> v)

\* dict.get
get(d, k, default) == IF k \in DOMAIN d THEN d[k] ELSE default

\* the KeyError test of IDOKEP.__init__: the section lookup raises KeyError
\* when the section is missing, and the explicit check raises it when the
\* username or the password is
MissingOptionWrong(cfg) ==
    \/ ~cfg.section
    \/ ("username" \notin DOMAIN cfg.leaves /\ "password" \notin DOMAIN cfg.leaves)

MissingOption(cfg) ==
    \/ ~cfg.section
    \/ "username" \notin DOMAIN cfg.leaves
    \/ "password" \notin DOMAIN cfg.leaves

\* the setdefault block of IDOKEP.__init__ (Python's False, True, None and
\* the integers are written as the strings str() gives them)
SetUpDefaults(d) ==
    LET d1 == setdefault(d, "station_type", "WS23XX")
        d2 == setdefault(d1, "log_success", "True")
        d3 == setdefault(d2, "log_failure", "True")
        d4 == setdefault(d3, "skip_upload", "False")
        d5 == setdefault(d4, "post_interval", "300")
        d6 == setdefault(d5, "max_backlog", "sys.maxsize")
        d7 == setdefault(d6, "stale", "None")
        d8 == setdefault(d7, "timeout", "60")
        d9 == setdefault(d8, "max_tries", "3")
    IN  setdefault(d9, "retry_wait", "5")

\* weeutil.to_bool: the values it accepts, and what it returns for them;
\* for any other value it raises ValueError
to_bool_accepts(x) ==
    x \in {"True", "true", "yes", "y", "False", "false", "no", "n", "1", "0"}

to_bool(x) == x \in {"True", "true", "yes", "y", "1"}

\* int() of the numerals the model uses
int(x) == CASE x = "0" -> 0 [] x = "1" -> 1 [] x = "2" -> 2 [] x = "3" -> 3
            [] x = "5" -> 5 [] x = "60" -> 60 [] x = "300" -> 300

\* RESTThread.__init__ (the base class): the fields it keeps of the keyword
\* arguments kw, the flags through to_bool and the numbers through int
RESTThreadInit(kw) ==
    [ protocol_name |-> "IDOKEP",
      post_interval |-> kw.post_interval,
      max_backlog   |-> kw.max_backlog,
      stale         |-> kw.stale,
      log_success   |-> to_bool(kw.log_success),
      log_failure   |-> to_bool(kw.log_failure),
      timeout       |-> int(kw.timeout),
      max_tries     |-> int(kw.max_tries),
      retry_wait    |-> int(kw.retry_wait) ]

\* IDOKEPThread.__init__ with the keyword arguments kw: the base class's
\* fields, then the five fields of its own
IDOKEPThreadInit(kw) ==
    RESTThreadInit(kw)
    @@ [ username     |-> kw.username,
         password     |-> kw.password,
         station_type |-> kw.station_type,
         server_url   |-> kw.server_url,
         skip_upload  |-> to_bool(kw.skip_upload) ]

\* the keyword arguments IDOKEP.__init__ passes to IDOKEPThread
ThreadArguments(d) ==
    [ username      |-> d["username"],
      password      |-> d["password"],
      station_type  |-> get(d, "station_type", "WS23XX"),
      server_url    |-> get(d, "server_url", "https://pro.idokep.hu/sendws.php"),
      skip_upload   |-> get(d, "skip_upload", "False"),
      post_interval |-> get(d, "post_interval", "300"),
      max_backlog   |-> get(d, "max_backlog", "sys.maxsize"),
      stale         |-> get(d, "stale", "None"),
      log_success   |-> get(d, "log_success", "True"),
      log_failure   |-> get(d, "log_failure", "True"),
      timeout       |-> get(d, "timeout", "60"),
      max_tries     |-> get(d, "max_tries", "3"),
      retry_wait    |-> get(d, "retry_wait", "5") ]

-----------------------------------------------------------------------------
(* Strings and numbers of the request formatter *)

Digits == << "0", "1", "2", "3", "4", "5", "6", "7", "8", "9" >>

RECURSIVE Pow10(_)
Pow10(k) == IF k = 0 THEN 1 ELSE 10 * Pow10(k - 1)

Abs(x) == IF x < 0 THEN -x ELSE x

\* the decimal numeral of a natural number
RECURSIVE NatStr(_)
NatStr(n) == IF n < 10 THEN << Digits[n + 1] >>
             ELSE NatStr(n \div 10) \o << Digits[(n % 10) + 1] >>

\* the decimal numeral of n, zero-padded to width digits (%02d and the like)
RECURSIVE Pad(_, _)
Pad(n, width) == IF width <= 1 THEN NatStr(n)
                 ELSE IF n < Pow10(width - 1) THEN << "0" >> \o Pad(n, width - 1)
                 ELSE NatStr(n)

\* str.join
RECURSIVE join(_, _)
join(sep, parts) ==
    IF Len(parts) = 0 THEN << >>
    ELSE IF Len(parts) = 1 THEN parts[1]
    ELSE parts[1] \o << sep >> \o join(sep, Tail(parts))

\* Measurements are fixed-point numbers, in thousandths.
Scale == Pow10(3)

\* the number of decimals of each conversion of _FORMATS ('%.1f' is 1)
_FORMATS ==
    [ barometer   |-> 1,
      outTemp     |-> 1,
      outHumidity |-> 0,
      windSpeed   |-> 1,
      windDir     |-> 0,
      rain        |-> 2,
      rainRate    |-> 2 ]

\* '%.<prec>f' % x: x rounded to prec decimals (ties to even), with sign,
\* integer part and, for prec > 0, a point and exactly prec decimals
PercentF(prec, x) ==
    LET unit == Pow10(3 - prec)
        q0   == Abs(x) \div unit
        rem  == Abs(x) % unit
        q    == IF 2 * rem > unit \/ (2 * rem = unit /\ q0 % 2 = 1)
                THEN q0 + 1 ELSE q0
    IN  (IF x < 0 THEN << "-" >> ELSE << >>)
        \o NatStr(q \div Pow10(prec))
        \o (IF prec > 0 THEN << "." >> \o Pad(q % Pow10(prec), prec) ELSE << >>)

\* the decimals of a float's str(): as many as the value needs, at least one
RECURSIVE StripZeros(_)
StripZeros(ds) == IF Len(ds) > 1 /\ ds[Len(ds)] = "0"
                  THEN StripZeros(SubSeq(ds, 1, Len(ds) - 1)) ELSE ds

\* str(x) of a float x
str(x) ==
    (IF x < 0 THEN << "-" >> ELSE << >>)
    \o NatStr(Abs(x) \div Scale) \o << "." >> \o StripZeros(Pad(Abs(x) % Scale, 3))

\* a field of a record: None, or a number
None == [ isNone |-> TRUE, num |-> 0 ]
Num(x) == [ isNone |-> FALSE, num |-> x ]

\* IDOKEPThread._format(record, label)
_formatWrong(record, label) ==
    IF label \in DOMAIN record /\ ~record[label].isNone
    THEN IF label \in DOMAIN _FORMATS
         THEN PercentF(_FORMATS[label], record[label].num)
         ELSE str(record[label].num)
    ELSE << "0" >>

_format(record, label) ==
    IF label \in DOMAIN record /\ ~record[label].isNone
    THEN IF label \in DOMAIN _FORMATS
         THEN PercentF(_FORMATS[label], record[label].num)
         ELSE str(record[label].num)
    ELSE << >>

\* urllib.parse.quote_plus of one token: a space becomes "+", a reserved
\* character its %XX escape, anything else stays
quote_token(c) ==
    CASE c = " " -> << "+" >>
      [] c = "&" -> << "%", "26" >>
      [] c = "=" -> << "%", "3D" >>
      [] c = "?" -> << "%", "3F" >>
      [] c = "+" -> << "%", "2B" >>
      [] c = "%" -> << "%", "25" >>
      [] OTHER   -> << c >>

\* urllib.parse.quote_plus
RECURSIVE quote_plus(_)
quote_plus(string) ==
    IF Len(string) = 0 THEN << >>
    ELSE quote_token(string[1]) \o quote_plus(Tail(string))

\* weewx unit systems
US == 1
METRIC == 16
METRICWX == 17

\* x * num / den, rounded to the nearest thousandth
MulDiv(x, num, den) ==
    LET p == Abs(x) * num
        q == (2 * p + den) \div (2 * den)
    IN  IF x < 0 THEN -q ELSE q

\* the conversion of one observation to the METRICWX unit of its group:
\* degree C, m/s, mbar, mm and mm/h; percent and degrees stay
ConvertToMetricWX(usUnits, label, x) ==
    CASE usUnits = METRICWX -> x
      [] usUnits = US /\ label = "outTemp" -> MulDiv(x - 32 * Scale, 5, 9)
      [] usUnits = US /\ label \in {"windSpeed", "windGust"} -> MulDiv(x, 5588, 12500)
      [] usUnits = US /\ label = "barometer" -> MulDiv(x, 33864, 1000)
      [] usUnits = US /\ label \in {"rain", "rainRate"} -> MulDiv(x, 254, 10)
      [] usUnits = METRIC /\ label \in {"windSpeed", "windGust"} -> MulDiv(x, 10, 36)
      [] usUnits = METRIC /\ label \in {"rain", "rainRate"} -> x * 10
      [] OTHER -> x

\* weewx.units.to_METRICWX: every observation converted, None kept as
\* None, absent fields kept absent, dateTime kept, usUnits set to METRICWX
to_METRICWX(rec) ==
    [ k \in DOMAIN rec |->
        IF k = "usUnits" THEN Num(METRICWX)
        ELSE IF k = "dateTime" \/ rec[k].isNone THEN rec[k]
        ELSE Num(ConvertToMetricWX(rec["usUnits"].num, k, rec[k].num)) ]

\* time.localtime(ts) in a zone utcoffset seconds east of Greenwich: the
\* civil date and the time of day
localtime(ts, utcoffset) ==
    LET t    == ts + utcoffset
        days == t \div 86400
        sod  == t % 86400
        z    == days + 719468
        era  == z \div 146097
        doe  == z - era * 146097
        yoe  == (doe - doe \div 1460 + doe \div 36524 - doe \div 146096) \div 365
        doy  == doe - (365 * yoe + yoe \div 4 - yoe \div 100)
        mp   == (5 * doy + 2) \div 153
        m    == IF mp < 10 THEN mp + 3 ELSE mp - 9
    IN  [ tm_year |-> yoe + era * 400 + (IF m <= 2 THEN 1 ELSE 0),
          tm_mon  |-> m,
          tm_mday |-> doy - (153 * mp + 2) \div 5 + 1,
          tm_hour |-> sod \div 3600,
          tm_min  |-> (sod % 3600) \div 60,
          tm_sec  |-> sod % 60 ]

\* "key={}".format(value)
Param(key, value) == << key, "=" >> \o value

\* get_url: the list 'values' as first assigned, the quoted credentials
credentialsWrong(self) ==
    << Param("user", self.username),
       Param("pass", self.password) >>

credentials(self) ==
    << Param("user", quote_plus(self.username)),
       Param("pass", quote_plus(self.password)) >>

\* IDOKEPThread.get_url(in_record); utcoffset is the local zone of the host
get_url(self, rec, utcoffset) ==
    LET record  == to_METRICWX(rec)
        time_tt == localtime(record["dateTime"].num, utcoffset)
        values  ==
          credentials(self) \o
          << Param("ev", Pad(time_tt.tm_year, 4)),
             Param("ho", Pad(time_tt.tm_mon, 2)),
             Param("nap", Pad(time_tt.tm_mday, 2)),
             Param("ora", Pad(time_tt.tm_hour, 2)),
             Param("perc", Pad(time_tt.tm_min, 2)),
             Param("mp", Pad(time_tt.tm_sec, 2)),
             Param("hom", _format(record, "outTemp")),
             Param("rh", _format(record, "outHumidity")),
             Param("szelirany", _format(record, "windDir")),
             Param("szelero", _format(record, "windSpeed")),
             Param("szellokes", _format(record, "windGust")),
             Param("p", _format(record, "barometer")),
             Param("csap", _format(record, "rain")),
             Param("csap1h", _format(record, "rainRate")),
             Param("tipus", quote_plus(self.station_type)) >>
    IN  self.server_url \o << "?" >> \o join("&", values)

-----------------------------------------------------------------------------
(* The server's answers and check_response *)

\* a line of a response body either holds the phrase 'Feltoltes sikeres'
\* or does not
Lines == {"Feltoltes sikeres", "Hiba"}

Bodies == UNION { [1..n -> Lines] : n \in 0..MaxBodyLines }

\* what one post_request may end in: urlopen raises URLError (no
\* connection, time-out) or HTTPError (status 4xx, 5xx), or it returns a
\* 2xx response with a body
Answers == { [kind |-> "URLError", body |-> << >>],
             [kind |-> "HTTPError", body |-> << >>] } \cup
           { [kind |-> "2xx", body |-> b] : b \in Bodies }

\* the value of the local 'error' when the loop of check_response is over
ResponseError(response) ==
    ~ \E i \in 1..Len(response) : response[i] = "Feltoltes sikeres"

\* check_response: returns normally ("ok"), or raises.  With error set, the
\* arguments of the syslog call are evaluated first; they name
\* decoded_response, which nothing defines, so NameError is raised and the
\* raise of FailedPost that follows is never reached.
check_response(response) ==
    IF ResponseError(response) THEN "NameError" ELSE "ok"

-----------------------------------------------------------------------------
(* Log lines *)

Line(msg, rec) == [msg |-> msg, rec |-> rec]

Logged(msg) == { i \in 1..Len(log) : log[i].msg = msg }

-----------------------------------------------------------------------------
(* Spec: the service constructor *)

\* the order of the statements of IDOKEP.__init__ once the options are
\* there: create the queue, create and start the thread, bind the callback
CtorNextWrong(pc) ==
    CASE pc = "load"   -> "bind"
      [] pc = "bind"   -> "queue"
      [] pc = "queue"  -> "thread"
      [] pc = "thread" -> "done"

CtorNext(pc) ==
    CASE pc = "load"   -> "queue"
      [] pc = "queue"  -> "thread"
      [] pc = "thread" -> "bind"
      [] pc = "bind"   -> "done"

UrlInit0 ==
    /\ in_record = << >>
    /\ fmt_self = << >>
    /\ tz = 0
    /\ url = << >>
    /\ fpc = "off"

Init ==
    /\ config_dict \in ConfigDicts
    /\ ctor = "load"
    /\ site_dict = << >>
    /\ archive_queue = NoQueue
    /\ archive_thread = NoThread
    /\ alive = "unstarted"
    /\ bound = FALSE
    /\ log = << >>
    /\ produced = 0
    /\ wpc = "get"
    /\ cur = 0
    /\ count = 0
    /\ attempts = [r \in Records |-> 0]
    /\ sleeps = [r \in Records |-> 0]
    /\ bodies = [r \in Records |-> {}]
    /\ requests = {}
    /\ handed = {}
    /\ finished = [r \in Records |-> ""]
    /\ UrlInit0

\* IDOKEP.__init__, the try block: look the section up, accumulate its
\* leaves, check for the credentials; on KeyError log and return
InitLoadConfig ==
    /\ ctor = "load"
    /\ IF MissingOption(config_dict)
       THEN /\ log' = Append(log, Line("Data will not be posted: Missing option", 0))
            /\ ctor' = "returned"
            /\ UNCHANGED site_dict
       ELSE /\ site_dict' = config_dict.leaves
            /\ ctor' = CtorNext("load")
            /\ UNCHANGED log
    /\ UNCHANGED <<config_dict, archive_queue, archive_thread, alive, bound,
                   produced, wpc, cur, count, attempts, sleeps, bodies,
                   requests, handed, finished>>
    /\ UNCHANGED urlVars

\* IDOKEP.__init__: set up the defaults and create the queue
InitCreateQueue ==
    /\ ctor = "queue"
    /\ site_dict' = SetUpDefaults(site_dict)
    /\ archive_queue' = << >>
    /\ ctor' = CtorNext("queue")
    /\ UNCHANGED <<config_dict, archive_thread, alive, bound, log,
                   produced, wpc, cur, count, attempts, sleeps, bodies,
                   requests, handed, finished>>
    /\ UNCHANGED urlVars

\* IDOKEP.__init__: create the IDOKEPThread and start it; to_bool in
\* IDOKEPThread.__init__ raises ValueError for a skip_upload it cannot read,
\* and the exception leaves the constructor
InitStartThread ==
    /\ ctor = "thread"
    /\ LET kw == ThreadArguments(site_dict)
       IN IF to_bool_accepts(kw.skip_upload)
          THEN /\ archive_thread' = IDOKEPThreadInit(kw)
               /\ alive' = "running"
               /\ ctor' = CtorNext("thread")
          ELSE /\ ctor' = "raised"
               /\ UNCHANGED <<archive_thread, alive>>
    /\ UNCHANGED <<config_dict, site_dict, archive_queue, bound, log,
                   produced, wpc, cur, count, attempts, sleeps, bodies,
                   requests, handed, finished>>
    /\ UNCHANGED urlVars

\* IDOKEP.__init__: bind new_archive_record and log the user name
InitBind ==
    /\ ctor = "bind"
    /\ bound' = TRUE
    /\ log' = Append(log, Line("Data will be uploaded for user", 0))
    /\ ctor' = CtorNext("bind")
    /\ UNCHANGED <<config_dict, site_dict, archive_queue, archive_thread, alive,
                   produced, wpc, cur, count, attempts, sleeps, bodies,
                   requests, handed, finished>>
    /\ UNCHANGED urlVars

-----------------------------------------------------------------------------
(* Spec: the producer *)

\* the maxsize of the queue made by queue.Queue(): 0, which is no limit
maxsize == 0

\* queue.Queue.put waits while a queue with a limit is full
putWaits(q) == maxsize > 0 /\ Len(q) >= maxsize

\* queue.Queue.put, once there is room: the item goes to the tail
putWrong(q, item) == <<item>> \o q

put(q, item) == Append(q, item)

\* IDOKEP.new_archive_record(event)
new_archive_record(record) ==
    /\ ~putWaits(archive_queue)
    /\ archive_queue' = put(archive_queue, record)

\* The engine produces archive record number produced + 1 and dispatches
\* NEW_ARCHIVE_RECORD to the callbacks bound to it.  The engine runs its
\* main loop only after the services are constructed.
NewArchiveRecordEvent ==
    /\ ctor \in {"done", "returned"}
    /\ produced < MaxRecords
    /\ produced' = produced + 1
    /\ IF bound
       THEN new_archive_record(produced + 1)
       ELSE UNCHANGED archive_queue
    /\ UNCHANGED <<config_dict, ctor, site_dict, archive_thread, alive, bound,
                   log, wpc, cur, count, attempts, sleeps, bodies,
                   requests, handed, finished>>
    /\ UNCHANGED urlVars

-----------------------------------------------------------------------------
(* Spec: the worker thread (RESTThread.run_loop calling process_record) *)

\* how run_loop ends the processing of record r: it writes the line msg if
\* the flag says so, and goes back to queue.get
BackToGet(r, how, flag, msg) ==
    /\ finished' = [finished EXCEPT ![r] = how]
    /\ log' = IF flag THEN Append(log, Line(msg, r)) ELSE log
    /\ wpc' = "get"
    /\ cur' = 0
    /\ count' = 0

\* run_loop's handler for an exception that is none of the upload errors
\* it knows: it logs the exception and returns, which ends the thread
ThreadTerminates(r) ==
    /\ finished' = [finished EXCEPT ![r] = "unexpected exception"]
    /\ log' = Append(log, Line("Unexpected exception: thread terminating", r))
    /\ alive' = "terminated"
    /\ wpc' = "get"
    /\ cur' = 0
    /\ count' = 0

\* process_record up to the call of post_with_retries: TRUE when it returns
\* early because of skip_upload
SkipsUploadWrong(self) == FALSE

SkipsUpload(self) == self.skip_upload

\* The worker takes the oldest record off the queue.  The base class may
\* drop it there (backlog trimming, a stale record, the post interval);
\* that decision is the base class's and is left open.
WorkerDrop ==
    /\ alive = "running"
    /\ wpc = "get"
    /\ archive_queue # NoQueue
    /\ Len(archive_queue) > 0
    /\ archive_queue' = Tail(archive_queue)
    /\ finished' = [finished EXCEPT ![Head(archive_queue)] = "dropped"]
    /\ UNCHANGED <<config_dict, ctor, site_dict, archive_thread, alive, bound,
                   log, produced, wpc, cur, count, attempts, sleeps, bodies,
                   requests, handed>>
    /\ UNCHANGED urlVars

\* The worker takes the oldest record off the queue and run_loop calls
\* process_record: get_record, get_url, then either the early return of
\* skip_upload or the Request and the entry into post_with_retries.
ProcessRecord ==
    /\ alive = "running"
    /\ wpc = "get"
    /\ archive_queue # NoQueue
    /\ Len(archive_queue) > 0
    /\ LET r == Head(archive_queue)
       IN /\ archive_queue' = Tail(archive_queue)
          /\ handed' = handed \cup {r}
          /\ IF SkipsUpload(archive_thread)
             THEN /\ finished' = [finished EXCEPT ![r] = "skipped upload"]
                  /\ log' = log \o << Line("url", r), Line("skipping upload", r) >>
                            \o IF archive_thread.log_success
                               THEN << Line("Published record", r) >> ELSE << >>
                  /\ UNCHANGED <<requests, wpc, cur, count>>
             ELSE /\ requests' = requests \cup {r}
                  /\ log' = Append(log, Line("url", r))
                  /\ wpc' = "post"
                  /\ cur' = r
                  /\ count' = 0
                  /\ UNCHANGED finished
    /\ UNCHANGED <<config_dict, ctor, site_dict, archive_thread, alive, bound,
                   produced, attempts, sleeps, bodies>>
    /\ UNCHANGED urlVars

\* One pass of the loop of post_with_retries for the record in hand: sleep
\* retry_wait unless it is the first pass, post the request, and treat the
\* answer.  URLError and HTTPError are handled and the loop goes on; when
\* the loop runs out, FailedPost is raised and run_loop logs the failure.
\* A 2xx response goes to check_response.
PostAttempt(answer) ==
    /\ alive = "running"
    /\ wpc = "post"
    /\ attempts' = [attempts EXCEPT ![cur] = @ + 1]
    /\ sleeps' = [sleeps EXCEPT ![cur] = IF count > 0 THEN @ + 1 ELSE @]
    /\ bodies' = [bodies EXCEPT ![cur] = @ \cup
                    {IF answer.kind = "2xx" /\ ResponseError(answer.body)
                     THEN "no marker" ELSE answer.kind}]
    /\ IF answer.kind = "2xx"
       THEN IF check_response(answer.body) = "ok"
            THEN /\ BackToGet(cur, "published", archive_thread.log_success,
                              "Published record")
                 /\ UNCHANGED alive
            ELSE ThreadTerminates(cur)
       ELSE IF count + 1 < archive_thread.max_tries
            THEN /\ count' = count + 1
                 /\ log' = Append(log, Line("Failed upload attempt", cur))
                 /\ UNCHANGED <<finished, wpc, cur, alive>>
            ELSE /\ BackToGet(cur, "failed", archive_thread.log_failure,
                              "Failed to publish record")
                 /\ UNCHANGED alive
    /\ UNCHANGED <<config_dict, ctor, site_dict, archive_queue, archive_thread,
                   bound, produced, requests, handed>>
    /\ UNCHANGED urlVars

-----------------------------------------------------------------------------

Next ==
    \/ InitLoadConfig
    \/ InitCreateQueue
    \/ InitStartThread
    \/ InitBind
    \/ NewArchiveRecordEvent
    \/ WorkerDrop
    \/ ProcessRecord
    \/ \E answer \in Answers : PostAttempt(answer)

Spec == Init /\ [][Next]_vars

-----------------------------------------------------------------------------
(* Properties of Spec *)

\* the configuration lacks the section, the username or the password
LacksCredentials ==
    \/ ~config_dict.section
    \/ ~({"username", "password"} \subseteq DOMAIN config_dict.leaves)

\* the records now in the queue
Queued == IF archive_queue = NoQueue THEN {}
          ELSE { archive_queue[i] : i \in 1..Len(archive_queue) }

\* C1: whatever the outcomes of the uploads so far (transport error, HTTP
\* error status, 2xx response without the success marker), the worker
\* thread is still running: no error of one record ends the worker loop.
C1_UploadErrorNeverEndsWorker ==
    alive # "terminated"

\* C2: a record whose every answer was a 2xx response without the success
\* marker, once its processing is over, has had exactly max_tries send
\* attempts with a retry_wait sleep between consecutive attempts, and ended
\* as a failed upload that is logged (when log_failure is set).
C2_NoMarkerRetriedMaxTries ==
    \A r \in Records :
        (finished[r] \notin {"", "dropped"} /\ bodies[r] = {"no marker"}) =>
            /\ attempts[r] = archive_thread.max_tries
            /\ sleeps[r] = archive_thread.max_tries - 1
            /\ finished[r] = "failed"
            /\ archive_thread.log_failure =>
                 \E i \in Logged("Failed to publish record") : log[i].rec = r

\* C3: with skip_upload set, no Request is built and no post is made for
\* any record, and every record handed to process_record has left the
\* queue for good.
C3_SkipUploadNoRequest ==
    (alive # "unstarted" /\ archive_thread.skip_upload) =>
        /\ requests = {}
        /\ \A r \in Records : attempts[r] = 0
        /\ wpc = "get"
        /\ \A r \in handed : r \notin Queued /\ finished[r] = "skipped upload"

C3_Witness ==
    /\ alive # "unstarted"
    /\ archive_thread.skip_upload
    /\ Cardinality(handed) >= 2
    /\ produced >= 2

\* C5: if the configuration lacks the section, the username or the
\* password, the constructor logs the missing option once and returns with
\* no queue, no thread and no binding; no record is ever enqueued or
\* uploaded after that.
C5_MissingOptionNeverStarts ==
    (LacksCredentials /\ ctor # "load") =>
        /\ ctor = "returned"
        /\ Cardinality(Logged("Data will not be posted: Missing option")) = 1
        /\ Len(log) = 1
        /\ archive_queue = NoQueue
        /\ alive = "unstarted"
        /\ ~bound
        /\ handed = {}
        /\ requests = {}
        /\ \A r \in Records : attempts[r] = 0 /\ finished[r] = ""

C5_Witness ==
    /\ LacksCredentials
    /\ ctor = "returned"
    /\ produced >= 2

\* C6: the queue always holds the most recently delivered records, each
\* once, in the order of delivery (a notification appends its record,
\* unchanged, at the tail), and a notification never has to wait, whatever
\* the length of the queue.
C6_PutAppendsAtTail ==
    bound =>
        /\ \A i \in 1..Len(archive_queue) :
              archive_queue[i] = produced - Len(archive_queue) + i
        /\ (ctor = "done" /\ produced < MaxRecords) => ENABLED NewArchiveRecordEvent

C6_Witness ==
    /\ bound
    /\ Len(archive_queue) >= 2
    /\ handed = {}

\* C10: whenever new_archive_record is bound, the queue exists and the
\* worker thread has been started; with a configuration that lacks the
\* credentials it is never bound.
C10_BoundOnlyAfterQueueAndThread ==
    /\ bound => (archive_queue # NoQueue /\ alive # "unstarted")
    /\ LacksCredentials => ~bound
    /\ alive # "unstarted" => archive_queue # NoQueue

C10_Witness ==
    /\ bound
    /\ ctor = "done"
    /\ archive_queue # NoQueue
    /\ Len(archive_queue) >= 1
    /\ alive = "running"

-----------------------------------------------------------------------------
(* SpecUrl: get_url applied to records drawn from bounded sets *)

OptionalFields == { "outTemp", "outHumidity", "windDir", "windSpeed",
                    "windGust", "barometer", "rain", "rainRate" }

\* raw measurements, in thousandths: 0, 3.125, 20.5 and -4.25
Values == { 0, 3125, 20500, -4250 }

\* the records: up to MaxMissing optional fields are absent or None, the
\* others hold the value v; usUnits and dateTime are always there
InputRecords ==
    { [ k \in {"dateTime", "usUnits"} \cup (OptionalFields \ absent) |->
          IF k = "dateTime" THEN Num(ts)
          ELSE IF k = "usUnits" THEN Num(u)
          ELSE IF k \in none THEN None ELSE Num(v) ] :
      <<absent, none, v, u, ts>> \in
        { c \in (SUBSET OptionalFields) \X (SUBSET OptionalFields) \X Values
                 \X {US, METRIC, METRICWX} \X {0, 1709251199} :
            /\ c[1] \cap c[2] = {}
            /\ Cardinality(c[1] \cup c[2]) <= MaxMissing } }

\* the thread's credentials, station type and server URL
InputSelves ==
    { [ username     |-> << "user" >>,
        password     |-> << "secret" >>,
        station_type |-> << "WS23XX" >>,
        server_url   |-> << "https://pro.idokep.hu/sendws.php" >> ],
      [ username     |-> << "a", "&", "b" >>,
        password     |-> << "p", "=", "1", " ", "%" >>,
        station_type |-> << "Davis", " ", "VP2" >>,
        server_url   |-> << "https://pro.idokep.hu/sendws.php" >> ],
      [ username     |-> << "x", "?", "y" >>,
        password     |-> << "+" >>,
        station_type |-> << "WS23XX" >>,
        server_url   |-> << "http://localhost/sendws.php" >> ] }

InitUrl ==
    /\ config_dict = [section |-> FALSE, leaves |-> << >>]
    /\ ctor = "off"
    /\ site_dict = << >>
    /\ archive_queue = NoQueue
    /\ archive_thread = NoThread
    /\ alive = "unstarted"
    /\ bound = FALSE
    /\ log = << >>
    /\ produced = 0
    /\ wpc = "get"
    /\ cur = 0
    /\ count = 0
    /\ attempts = [r \in Records |-> 0]
    /\ sleeps = [r \in Records |-> 0]
    /\ bodies = [r \in Records |-> {}]
    /\ requests = {}
    /\ handed = {}
    /\ finished = [r \in Records |-> ""]
    /\ in_record \in InputRecords
    /\ fmt_self \in InputSelves
    /\ tz \in {3600}
    /\ url = << >>
    /\ fpc = "input"

\* url = self.get_url(r)
GetUrl ==
    /\ fpc = "input"
    /\ url' = get_url(fmt_self, in_record, tz)
    /\ fpc' = "built"
    /\ UNCHANGED <<in_record, fmt_self, tz>>
    /\ UNCHANGED svcVars

NextUrl == GetUrl

SpecUrl == InitUrl /\ [][NextUrl]_vars

-----------------------------------------------------------------------------
(* Properties of SpecUrl *)

\* the parts of a string between the separators sep
RECURSIVE split(_, _)
split(string, sep) ==
    IF \A i \in 1..Len(string) : string[i] # sep THEN << string >>
    ELSE LET i == CHOOSE j \in 1..Len(string) :
                    string[j] = sep /\ \A k \in 1..(j - 1) : string[k] # sep
         IN  << SubSeq(string, 1, i - 1) >>
             \o split(SubSeq(string, i + 1, Len(string)), sep)

\* the query of a URL: what follows its first "?"
Query(u) ==
    LET i == CHOOSE j \in 1..Len(u) : u[j] = "?" /\ \A k \in 1..(j - 1) : u[k] # "?"
    IN  SubSeq(u, i + 1, Len(u))

\* the parameters of a URL as a server reads them: the query split at "&",
\* each part split at its first "="
Parameters(u) ==
    LET parts == split(Query(u), "&")
    IN  [ i \in 1..Len(parts) |->
            LET kv == split(parts[i], "=")
            IN  [ key   |-> kv[1],
                  hasEq |-> Len(kv) > 1,
                  value |-> join("=", Tail(kv)) ] ]

\* the positions of the parameters named key
Named(ps, key) == { i \in 1..Len(ps) : ps[i].key = << key >> }

\* the parameter of each optional field
ParamOf ==
    [ outTemp |-> "hom", outHumidity |-> "rh", windDir |-> "szelirany",
      windSpeed |-> "szelero", windGust |-> "szellokes", barometer |-> "p",
      rain |-> "csap", rainRate |-> "csap1h" ]

\* the parameter names section 6 lists
ListedKeys == { "user", "pass", "ev", "ho", "nap", "ora", "perc", "mp", "hom",
                "rh", "szelirany", "szelero", "szellokes", "p", "csap",
                "csap1h", "tipus" }

Missing(rec, f) == f \notin DOMAIN rec \/ rec[f].isNone

\* the number of digits after the point of a numeral (0 without a point)
Decimals(numeral) ==
    IF \E i \in 1..Len(numeral) : numeral[i] = "."
    THEN Len(split(numeral, ".")[2]) ELSE 0

\* C7: for every optional field that is absent or None in the record, the
\* URL holds that field's parameter exactly once, with "=" and an empty
\* value: the key is not left out and the value is not zero.
C7_MissingFieldEmptyValue ==
    fpc = "built" =>
        LET ps == Parameters(url)
        IN  \A f \in OptionalFields :
                Missing(in_record, f) =>
                    /\ Cardinality(Named(ps, ParamOf[f])) = 1
                    /\ \A i \in Named(ps, ParamOf[f]) :
                          ps[i].hasEq /\ ps[i].value = << >>

C7_Witness ==
    /\ fpc = "built"
    /\ \E f \in OptionalFields : f \notin DOMAIN in_record
    /\ \E f \in OptionalFields : f \in DOMAIN in_record /\ in_record[f].isNone

C9_FixedPrecision ==
    fpc = "built" =>
        LET ps == Parameters(url)
        IN  \A f \in OptionalFields :
                ~Missing(in_record, f) =>
                    /\ f \in DOMAIN _FORMATS
                    /\ \A i \in Named(ps, ParamOf[f]) :
                          Decimals(ps[i].value) = _FORMATS[f]

====
